---- MODULE Spec2Model ----
(***************************************************************************)
(* Model of direct/sig.go of rmb-sdk-go: the tagged signature codec, the   *)
(* verifier factory, the two verifying keys and VerifySignature.           *)
(*                                                                         *)
(* A string is a sequence of one-character strings, a byte slice is a      *)
(* sequence of numbers in 0..255.  One behaviour is one call of            *)
(* VerifySignature on one envelope; the outcomes of the collaborators      *)
(* outside the file (registry, Challenge, the curve libraries) are drawn   *)
(* where the call is made.                                                 *)
(***************************************************************************)
EXTENDS Integers, Sequences, FiniteSets, TLC

\* ------------------------------------------------------------------ bounds
\* twin identifiers are 0..MaxTwin
MaxTwin == 2
\* free-form signature strings have at most MaxStrLen characters
MaxStrLen == 4
\* signer-made raw signatures have 0..MaxShort bytes, or ...
MaxShort == 1
\* ... SignatureSize-MaxDelta .. SignatureSize+MaxDelta bytes
MaxDelta == 1

\* ------------------------------------------------------- program constants
\* var sigs [64]byte
SignatureSize == 64
\* var pubBytes [32]byte
PublicKeySize == 32
\* byte('e')
TagEd25519 == 101
\* byte('s')
TagSr25519 == 115

SignatureTypeEd25519 == "ed25519"
SignatureTypeSr25519 == "sr25519"

Byte == 0..255

\* the nil error
Nil == [msg |-> "", cause |-> ""]
\* the nil byte slice (a string never holds a three-letter element)
NilSlice == <<"nil">>

\* ----------------------------------------------------------- encoding/hex
HexTable == <<"0", "1", "2", "3", "4", "5", "6", "7",
              "8", "9", "a", "b", "c", "d", "e", "f">>
UpperTable == <<"0", "1", "2", "3", "4", "5", "6", "7",
                "8", "9", "A", "B", "C", "D", "E", "F">>

IsHexChar(c) == \E i \in 1..16 : HexTable[i] = c \/ UpperTable[i] = c

\* reverseHexTable: the value of a hex digit, either case
HexVal(c) == (CHOOSE i \in 1..16 : HexTable[i] = c \/ UpperTable[i] = c) - 1

\* hex.EncodeToString: two lower-case digits per byte
HexEncode(bytes) ==
    [i \in 1..(2 * Len(bytes)) |->
        IF i % 2 = 1 THEN HexTable[(bytes[(i + 1) \div 2] \div 16) + 1]
                     ELSE HexTable[(bytes[i \div 2] % 16) + 1]]

\* the number of leading well-formed digit pairs of s
RECURSIVE GoodPairs(_, _)
GoodPairs(s, j) ==
    IF 2 * j + 2 > Len(s) THEN j
    ELSE IF IsHexChar(s[2 * j + 1]) /\ IsHexChar(s[2 * j + 2])
         THEN GoodPairs(s, j + 1)
         ELSE j

\* hex.DecodeString: the bytes decoded before the first error, and the error
HexDecode(s) ==
    LET n == GoodPairs(s, 0)
        bytes == [i \in 1..n |-> 16 * HexVal(s[2 * i - 1]) + HexVal(s[2 * i])]
    IN  IF 2 * n + 2 <= Len(s)
        THEN [bytes |-> bytes, err |-> [msg |-> "encoding/hex: invalid byte", cause |-> ""]]
        ELSE IF Len(s) % 2 = 1
        THEN [bytes |-> bytes,
              err |-> IF IsHexChar(s[Len(s)])
                      THEN [msg |-> "encoding/hex: odd length hex string", cause |-> ""]
                      ELSE [msg |-> "encoding/hex: invalid byte", cause |-> ""]]
        ELSE [bytes |-> bytes, err |-> Nil]

\* ------------------------------------------------------------ pkg/errors
\* errors.Wrap / errors.Wrapf: nil when err is nil
Wrap(err, msg) == IF err = Nil THEN Nil ELSE [msg |-> msg, cause |-> err.msg]

\* fmt.Errorf
Errorf(msg) == [msg |-> msg, cause |-> ""]

\* ---------------------------------------------------------------- sig.go
sigTypeToChar(sigType) ==
    IF sigType = SignatureTypeEd25519 THEN [char |-> TagEd25519, err |-> Nil]
    ELSE IF sigType = SignatureTypeSr25519 THEN [char |-> TagSr25519, err |-> Nil]
    ELSE [char |-> 0, err |-> Errorf("unrecognized signature type")]

charToSigTypeSwapped(prefix) ==
    IF prefix = TagEd25519 THEN [type |-> SignatureTypeSr25519, err |-> Nil]
    ELSE IF prefix = TagSr25519 THEN [type |-> SignatureTypeEd25519, err |-> Nil]
    ELSE [type |-> "", err |-> Errorf("unrecognized signature prefix")]

charToSigTypeLax(prefix) ==
    IF prefix = TagEd25519 THEN [type |-> SignatureTypeEd25519, err |-> Nil]
    ELSE [type |-> SignatureTypeSr25519, err |-> Nil]

charToSigType(prefix) ==
    IF prefix = TagEd25519 THEN [type |-> SignatureTypeEd25519, err |-> Nil]
    ELSE IF prefix = TagSr25519 THEN [type |-> SignatureTypeSr25519, err |-> Nil]
    ELSE [type |-> "", err |-> Errorf("unrecognized signature prefix")]

NoVerifier == [type |-> "", key |-> <<>>]

constructVerifierSwapped(publicKey, key_type) ==
    IF key_type = SignatureTypeEd25519
    THEN [v |-> [type |-> "Sr25519VerifyingKey", key |-> publicKey], err |-> Nil]
    ELSE IF key_type = SignatureTypeSr25519
    THEN [v |-> [type |-> "Ed25519VerifyingKey", key |-> publicKey], err |-> Nil]
    ELSE [v |-> NoVerifier, err |-> Errorf("unrecognized key type")]

constructVerifier(publicKey, key_type) ==
    IF key_type = SignatureTypeEd25519
    THEN [v |-> [type |-> "Ed25519VerifyingKey", key |-> publicKey], err |-> Nil]
    ELSE IF key_type = SignatureTypeSr25519
    THEN [v |-> [type |-> "Sr25519VerifyingKey", key |-> publicKey], err |-> Nil]
    ELSE [v |-> NoVerifier, err |-> Errorf("unrecognized key type")]

\* copy(buf[:], src) into a zeroed array of n bytes: truncates or zero-pads
CopyInto(src, n) == [i \in 1..n |-> IF i <= Len(src) THEN src[i] ELSE 0]

\* what the curve libraries answer during one Verify:
\*   pkErr   pk.Decode(pubBytes) fails        (go-schnorrkel)
\*   sigErr  sig.Decode(sigs) fails           (go-schnorrkel)
\*   lib     pub.Verify returns (true, nil), (false, nil) or (_, err)
\*   ed      the Ed25519 equation holds for a 64-byte signature
\* A result carries ok (the boolean returned), log (the library calls made,
\* in order) and prim (the signature bytes handed to the curve).
CryptoOutcomes ==
    [pkErr : BOOLEAN, sigErr : BOOLEAN, lib : {"true", "false", "err"}, ed : BOOLEAN]

NoCrypto == [pkErr |-> FALSE, sigErr |-> FALSE, lib |-> "", ed |-> FALSE]

\* Ed25519VerifyingKey.Verify: ed25519.Verify rejects any signature whose
\* length is not SignatureSize before it looks at the curve
Ed25519Verify(k, msg, sig, o) ==
    [ok |-> (Len(sig) = SignatureSize /\ o.ed), log |-> <<"ed25519.Verify">>, prim |-> sig]

\* Sr25519VerifyingKey.pubKey
pubKey(k, o) ==
    LET pubBytes == CopyInto(k, PublicKeySize)
    IN  IF o.pkErr
        THEN [pk |-> <<>>, err |-> Errorf("invalid public key")]
        ELSE [pk |-> pubBytes, err |-> Nil]

\* Sr25519VerifyingKey.verify
verify(pub, msg, signature, o) ==
    LET sigs == CopyInto(signature, SignatureSize)
    IN  IF o.sigErr
        THEN [ok |-> FALSE, log |-> <<"sig.Decode">>, prim |-> sigs]
        ELSE IF o.lib = "err"
        THEN [ok |-> FALSE, log |-> <<"sig.Decode", "pub.Verify">>, prim |-> sigs]
        ELSE [ok |-> (o.lib = "true"), log |-> <<"sig.Decode", "pub.Verify">>, prim |-> sigs]

Sr25519VerifyNoReturn(k, msg, sig, o) ==
    LET p == pubKey(k, o)
        r == verify(p.pk, msg, sig, o)
    IN  [ok |-> r.ok, log |-> <<"pk.Decode">> \o r.log, prim |-> r.prim]

\* Sr25519VerifyingKey.Verify
Sr25519Verify(k, msg, sig, o) ==
    LET p == pubKey(k, o)
    IN  IF p.err # Nil
        THEN [ok |-> FALSE, log |-> <<"pk.Decode">>, prim |-> <<>>]
        ELSE LET r == verify(p.pk, msg, sig, o)
             IN  [ok |-> r.ok, log |-> <<"pk.Decode">> \o r.log, prim |-> r.prim]

\* Verifier.Verify, dispatched on the concrete type
VerifierVerify(v, msg, sig, o) ==
    IF v.type = "Ed25519VerifyingKey"
    THEN Ed25519Verify(v.key, msg, sig, o)
    ELSE Sr25519Verify(v.key, msg, sig, o)

\* ------------------------------------------------------ the collaborators
TwinIds == 0..MaxTwin

\* the registry: twin 0 does not exist, twin t has the key t, t, ..., t
Registered(t) == t >= 1
AccountPublicKey(t) == [i \in 1..PublicKeySize |-> t]

\* sub.GetTwin: the answers the registry can give for twin t
GetTwinOutcomes(t) ==
    IF Registered(t) THEN {"ok", "transport"} ELSE {"notfound", "transport"}

\* Challenge(env): the digest of the envelope's signable fields, or an error
Challenge(e, fails) ==
    IF fails THEN [data |-> <<>>, err |-> Errorf("challenge failed")]
    ELSE [data |-> <<e.twin>>, err |-> Nil]

\* the signer's side of the codec: tag byte, raw signature, hex
encode(scheme, rawBytes) == HexEncode(<<sigTypeToChar(scheme).char>> \o rawBytes)

\* ------------------------------------------------------------- the inputs
Alphabet == {"3", "5", "6", "7", "F", "g"}
FreeStrings == UNION {[1..n -> Alphabet] : n \in 0..MaxStrLen}

FillBytes == {17, 171}
RawLens == (0..MaxShort) \cup ((SignatureSize - MaxDelta)..(SignatureSize + MaxDelta))
RawSigs == {[i \in 1..n |-> b] : n \in RawLens, b \in FillBytes}
Schemes == {SignatureTypeEd25519, SignatureTypeSr25519}
SignedStrings == {encode(s, r) : s \in Schemes, r \in RawSigs}

Envelopes == [twin : TwinIds, sig : {NilSlice} \cup FreeStrings \cup SignedStrings]

\* ------------------------------------------------------------- the state
VARIABLES
    env,            \* the envelope VerifySignature is called on
    pc,             \* the statement VerifySignature is at
    pk,             \* twin.Account.PublicKey()
    sig,            \* env.GetSignature()
    decoded,        \* hex.DecodeString(string(sig))
    signatureType,  \* charToSigType(decoded[0])
    verifier,       \* constructVerifier(pk, signatureType)
    data,           \* Challenge(env)
    err,            \* the local err, reassigned by every call
    result,         \* the error VerifySignature returns
    calls,          \* the calls made so far, in order
    lookup,         \* the registry's answer
    crypto,         \* the curve libraries' answers during Verify
    verdict         \* what verifier.Verify returned and did

vars == <<env, pc, pk, sig, decoded, signatureType, verifier, data, err,
          result, calls, lookup, crypto, verdict>>

NoVerdict == [ok |-> FALSE, log |-> <<>>, prim |-> <<>>]

Init ==
    /\ env \in Envelopes
    /\ pc = "GetTwin"
    /\ pk = <<>>
    /\ sig = NilSlice
    /\ decoded = <<>>
    /\ signatureType = ""
    /\ verifier = NoVerifier
    /\ data = <<>>
    /\ err = Nil
    /\ result = Nil
    /\ calls = <<>>
    /\ lookup = ""
    /\ crypto = NoCrypto
    /\ verdict = NoVerdict

GetTwinIgnoringError ==
    /\ pc = "GetTwin"
    /\ \E o \in GetTwinOutcomes(env.twin) :
        /\ lookup' = o
        /\ err' = IF o = "ok" THEN Nil ELSE Errorf(o)
        /\ calls' = Append(calls, "GetTwin")
        /\ pk' = AccountPublicKey(env.twin)
        /\ pc' = "GetSignature"
        /\ result' = result
    /\ UNCHANGED <<env, sig, decoded, signatureType, verifier, data, crypto, verdict>>

\* twin, err := sub.GetTwin(env.Source.Twin); pk := twin.Account.PublicKey()
GetTwin ==
    /\ pc = "GetTwin"
    /\ \E o \in GetTwinOutcomes(env.twin) :
        LET e == IF o = "ok" THEN Nil ELSE Errorf(o)
        IN  /\ lookup' = o
            /\ err' = e
            /\ calls' = Append(calls, "GetTwin")
            /\ IF e # Nil
               THEN /\ result' = Wrap(e, "could not get twin from twin id")
                    /\ pc' = "done"
                    /\ pk' = pk
               ELSE /\ pk' = AccountPublicKey(env.twin)
                    /\ pc' = "GetSignature"
                    /\ result' = result
    /\ UNCHANGED <<env, sig, decoded, signatureType, verifier, data, crypto, verdict>>

\* sig := env.GetSignature(); err still holds GetTwin's nil
GetSignature ==
    /\ pc = "GetSignature"
    /\ sig' = env.sig
    /\ calls' = Append(calls, "GetSignature")
    /\ IF env.sig = NilSlice
       THEN /\ result' = Wrap(err, "could not get signature from envelope")
            /\ pc' = "done"
       ELSE /\ pc' = "DecodeString"
            /\ result' = result
    /\ UNCHANGED <<env, pk, decoded, signatureType, verifier, data, err, lookup,
                   crypto, verdict>>

\* decoded, err := hex.DecodeString(string(sig))
DecodeString ==
    /\ pc = "DecodeString"
    /\ LET d == HexDecode(sig)
       IN  /\ decoded' = d.bytes
           /\ err' = d.err
           /\ calls' = Append(calls, "DecodeString")
           /\ IF d.err # Nil
              THEN /\ result' = Wrap(d.err, "could not decode signature")
                   /\ pc' = "done"
              ELSE /\ pc' = "charToSigType"
                   /\ result' = result
    /\ UNCHANGED <<env, pk, sig, signatureType, verifier, data, lookup, crypto, verdict>>

\* signatureType, err := charToSigType(decoded[0]); decoded[0] of an empty
\* slice is a run-time panic (index out of range)
CharToSigType ==
    /\ pc = "charToSigType"
    /\ IF Len(decoded) = 0
       THEN /\ pc' = "panic"
            /\ UNCHANGED <<signatureType, err, result, calls>>
       ELSE LET t == charToSigType(decoded[1])
            IN  /\ signatureType' = t.type
                /\ err' = t.err
                /\ calls' = Append(calls, "charToSigType")
                /\ IF t.err # Nil
                   THEN /\ result' = Wrap(t.err,
                              "got bad signature type should be either Ed25519 or Sr25519")
                        /\ pc' = "done"
                   ELSE /\ pc' = "constructVerifier"
                        /\ result' = result
    /\ UNCHANGED <<env, pk, sig, decoded, verifier, data, lookup, crypto, verdict>>

\* verifier, err := constructVerifier(pk, signatureType)
ConstructVerifier ==
    /\ pc = "constructVerifier"
    /\ LET c == constructVerifier(pk, signatureType)
       IN  /\ verifier' = c.v
           /\ err' = c.err
           /\ calls' = Append(calls, "constructVerifier")
           /\ IF c.err # Nil
              THEN /\ result' = c.err
                   /\ pc' = "done"
              ELSE /\ pc' = "Challenge"
                   /\ result' = result
    /\ UNCHANGED <<env, pk, sig, decoded, signatureType, data, lookup, crypto, verdict>>

\* data, err := Challenge(env)
ChallengeStep ==
    /\ pc = "Challenge"
    /\ \E fails \in BOOLEAN :
        LET c == Challenge(env, fails)
        IN  /\ data' = c.data
            /\ err' = c.err
            /\ calls' = Append(calls, "Challenge")
            /\ IF c.err # Nil
               THEN /\ result' = Wrap(c.err, "could not get challenge hash")
                    /\ pc' = "done"
               ELSE /\ pc' = "Verify"
                    /\ result' = result
    /\ UNCHANGED <<env, pk, sig, decoded, signatureType, verifier, lookup, crypto, verdict>>

\* if !verifier.Verify(data, decoded[1:]) { return error }; return nil
VerifyStep ==
    /\ pc = "Verify"
    /\ \E o \in CryptoOutcomes :
        LET r == VerifierVerify(verifier, data, Tail(decoded), o)
        IN  /\ crypto' = o
            /\ verdict' = r
            /\ calls' = Append(calls, "Verify")
            /\ result' = IF ~r.ok THEN Errorf("could not verify signature") ELSE Nil
            /\ pc' = "done"
    /\ UNCHANGED <<env, pk, sig, decoded, signatureType, verifier, data, err, lookup>>

Next ==
    \/ GetTwin
    \/ GetSignature
    \/ DecodeString
    \/ CharToSigType
    \/ ConstructVerifier
    \/ ChallengeStep
    \/ VerifyStep

Spec == Init /\ [][Next]_vars

\* ------------------------------------------------------------ the claims
Range(f) == {f[i] : i \in DOMAIN f}
Called(name) == name \in Range(calls)
IsPrefix(a, b) == Len(a) <= Len(b) /\ \A i \in 1..Len(a) : a[i] = b[i]
Terminated == pc \in {"done", "panic"}
Tags == {TagEd25519, TagSr25519}
LookupFailed == lookup \in {"notfound", "transport"}
NotValidHex(s) == Len(s) % 2 = 1 \/ \E i \in 1..Len(s) : ~IsHexChar(s[i])
MismatchError == Errorf("could not verify signature")

\* the order of the steps of VerifySignature
StepOrder == <<"GetTwin", "GetSignature", "DecodeString", "charToSigType",
               "constructVerifier", "Challenge", "Verify">>

\* C1: a call on an envelope without a signature, whose twin resolves,
\* returns a non-nil error and never invokes Challenge.
C1_MissingSignatureIsError ==
    (pc = "done" /\ lookup = "ok" /\ env.sig = NilSlice)
        => (result # Nil /\ ~Called("Challenge"))

\* C2: the call returns nil only if Verify was invoked and returned true, and
\* whenever Verify returned false the call returns the mismatch error.
C2_SuccessIffVerified ==
    pc = "done" =>
        /\ (result = Nil) => (Called("Verify") /\ verdict.ok)
        /\ (Called("Verify") /\ ~verdict.ok) => (result = MismatchError)

\* C3: a signature string that is empty or not valid hex makes the call end
\* with the decode error: no crash, no success.
C3_BadHexIsDecodeError ==
    (Terminated /\ Called("DecodeString") /\ (sig = <<>> \/ NotValidHex(sig)))
        => (pc = "done" /\ result.msg = "could not decode signature")

\* C4: when the registry lookup fails the call returns the lookup error and
\* has read no signature, decoded nothing, built no verifier and called
\* neither Challenge nor Verify.
C4_LookupFailureShortCircuits ==
    LookupFailed =>
        /\ pc = "done"
        /\ result = [msg |-> "could not get twin from twin id", cause |-> lookup]
        /\ calls = <<"GetTwin">>
        /\ decoded = <<>>
        /\ verifier = NoVerifier
        /\ data = <<>>
        /\ verdict = NoVerdict

C4_Witness ==
    /\ pc = "done"
    /\ lookup = "notfound"
    /\ env.twin = 0
    /\ env.sig \in SignedStrings
    /\ result.msg = "could not get twin from twin id"

\* C5: charToSigType fails exactly on the bytes other than 'e' and 's', and a
\* decoded signature with such a first byte makes the call return the
\* bad-signature-type error without a verifier and without Challenge.
C5_UnrecognizedTag ==
    /\ \A b \in Byte : (charToSigType(b).err = Nil) <=> (b \in Tags)
    /\ (Called("charToSigType") /\ decoded[1] \notin Tags) =>
        /\ pc = "done"
        /\ result = [msg |-> "got bad signature type should be either Ed25519 or Sr25519",
                     cause |-> "unrecognized signature prefix"]
        /\ verifier = NoVerifier
        /\ ~Called("constructVerifier")
        /\ ~Called("Challenge")
        /\ ~Called("Verify")

C5_Witness ==
    /\ pc = "done"
    /\ Called("charToSigType")
    /\ decoded = <<111, 101>>
    /\ result.cause = "unrecognized signature prefix"

\* C6: the verifier's variant is a function of the tag byte alone and its key
\* is the twin's registered public key, unchanged.
C6_VerifierFromTag ==
    Called("constructVerifier") =>
        /\ decoded[1] \in Tags
        /\ verifier.type = (IF decoded[1] = TagEd25519 THEN "Ed25519VerifyingKey"
                                                      ELSE "Sr25519VerifyingKey")
        /\ verifier.key = AccountPublicKey(env.twin)

C6_Witness ==
    /\ Called("Verify")
    /\ decoded[1] = TagSr25519
    /\ verifier = [type |-> "Sr25519VerifyingKey", key |-> AccountPublicKey(MaxTwin)]

\* C7: decoding an encoded signature gives back its scheme and its raw bytes;
\* sigTypeToChar and charToSigType are inverse on the two schemes and tags.
C7_RoundTrip ==
    /\ \A s \in Schemes : charToSigType(sigTypeToChar(s).char) = [type |-> s, err |-> Nil]
    /\ \A c \in Tags : sigTypeToChar(charToSigType(c).type) = [char |-> c, err |-> Nil]
    /\ \A s \in Schemes, r \in RawSigs :
        (sig = encode(s, r) /\ Called("charToSigType")) =>
            /\ signatureType = s
            /\ Tail(decoded) = r

C7_Witness ==
    /\ Called("Verify")
    /\ sig = encode(SignatureTypeSr25519, [i \in 1..SignatureSize |-> 171])
    /\ signatureType = SignatureTypeSr25519
    /\ Len(decoded) = SignatureSize + 1

\* C8: the raw signature handed to verifier.Verify always has exactly
\* SignatureSize bytes.
C8_VerifyGets64Bytes ==
    Called("Verify") => Len(Tail(decoded)) = SignatureSize

\* C9: the steps run in the fixed order, each at most once, a step runs only
\* after every earlier one succeeded, and a call that stops before Verify
\* returns the failing step's error.
C9_OrderedSingleAttempt ==
    /\ IsPrefix(calls, StepOrder)
    /\ (Terminated /\ calls # StepOrder) => (pc = "done" /\ result # Nil)

\* C10: on the Sr25519 path a failed key decode, a failed signature decode or
\* a library error makes Verify return false, a failed key decode stops
\* before the signature is touched, and the call returns the mismatch error.
C10_Sr25519FailuresAreFalse ==
    (Called("Verify") /\ verifier.type = "Sr25519VerifyingKey"
        /\ (crypto.pkErr \/ crypto.sigErr \/ crypto.lib = "err")) =>
        /\ ~verdict.ok
        /\ crypto.pkErr => verdict.log = <<"pk.Decode">>
        /\ (~crypto.pkErr /\ crypto.sigErr) => verdict.log = <<"pk.Decode", "sig.Decode">>
        /\ pc = "done"
        /\ result = MismatchError

C10_Witness ==
    /\ Called("Verify")
    /\ verifier.type = "Sr25519VerifyingKey"
    /\ crypto.pkErr
    /\ crypto.lib = "true"
    /\ verdict.log = <<"pk.Decode">>
    /\ result = MismatchError

====
